---------------------------- MODULE Spec2Model ----------------------------
(***************************************************************************)
(* average_reports (mltoolbox/metrics/utils/utils.py) as a state machine.  *)
(*                                                                         *)
(* A DataFrame is a record                                                 *)
(*     [index |-> row labels, columns |-> column names, data |-> rows]     *)
(* addressed by position, because the frame built on line 32 carries each  *)
(* column name once per report.  A cell is a rational [n |-> , d |-> ];    *)
(* precision, recall and f1-score are held in thousandths (0.805 is 805),  *)
(* support in units.  d = 0 is NaN, the cell pandas puts where a report    *)
(* has no such row or column.                                              *)
(*                                                                         *)
(* Objects live in heap, a map from object ids to values; reports is the   *)
(* caller's list of ids, df and report_final are the function's locals     *)
(* (0 is unbound), so that writing through an alias is a visible event.    *)
(***************************************************************************)
EXTENDS Integers, Sequences, FiniteSets, TLC

VARIABLES heap, reports, output_dict, pc, df, report_final, result, err

vars == <<heap, reports, output_dict, pc, df, report_final, result, err>>

\* Longest list of reports handed to the function.
MaxReports == 3

\* Number of distinct value fillings of a report.
MaxSeed == 2

---------------------------------------------------------------------------
\* Cells

NaN == [n |-> 0, d |-> 0]

Num(x) == [n |-> x, d |-> 1]

IsNaN(c) == c.d = 0

---------------------------------------------------------------------------
\* Sequence helpers

RECURSIVE SeqSum(_)
SeqSum(s) == IF s = <<>> THEN 0 ELSE Head(s) + SeqSum(Tail(s))

RECURSIVE Flatten(_)
Flatten(ss) == IF ss = <<>> THEN <<>> ELSE Head(ss) \o Flatten(Tail(ss))

Range(s) == {s[i] : i \in 1..Len(s)}

Positions(s, x) == {i \in 1..Len(s) : s[i] = x}

Orderings(n) == {p \in [1..n -> 1..n] : \A i, j \in 1..n : i # j => p[i] # p[j]}

---------------------------------------------------------------------------
\* The reports a caller passes

Columns == <<"precision", "recall", "f1-score", "support">>

Classes == <<"A", "B", "C">>

\* Row layouts of one report: per-class rows, then the summary rows that the
\* report generator was asked for.
RowVariant(rv) ==
    CASE rv = "plain"      -> Classes \o <<"macro avg", "weighted avg">>
      [] rv = "extra"      -> Classes \o <<"micro avg", "accuracy", "macro avg", "weighted avg">>
      [] rv = "nomacro"    -> Classes \o <<"weighted avg">>
      [] rv = "noweighted" -> Classes \o <<"macro avg">>

\* Column layouts of one report.
ColVariant(cv) ==
    CASE cv = "full"      -> Columns
      [] cv = "norecall"  -> <<"precision", "f1-score", "support">>
      [] cv = "nosupport" -> <<"precision", "recall", "f1-score">>

\* Support of a class row in the fold filled with seed s.
ClassSupport(label, s) == IF label = "A" THEN 2 * s - 1 ELSE 2

\* The value a fold filled with seed s holds at (label, column).
CellValue(label, col, s) ==
    IF col = "support"
    THEN IF label \in Range(Classes)
         THEN ClassSupport(label, s)
         ELSE SeqSum([i \in 1..Len(Classes) |-> ClassSupport(Classes[i], s)])
    ELSE (CASE col = "precision" -> 800 [] col = "recall" -> 700 [] OTHER -> 750)
         + (CASE label = "A" -> 0 [] label = "B" -> 50 [] label = "C" -> 90
              [] label = "macro avg" -> 25 [] label = "weighted avg" -> 20
              [] label = "micro avg" -> 30 [] OTHER -> 40)
         + 15 * (s - 1)

MkReport(rv, cv, s) ==
    LET idx  == RowVariant(rv)
        cols == ColVariant(cv)
    IN  [index   |-> idx,
         columns |-> cols,
         data    |-> [r \in 1..Len(idx) |->
                        [j \in 1..Len(cols) |-> Num(CellValue(idx[r], cols[j], s))]]]

\* The reports the model draws from: well-formed folds with every filling,
\* and one fold for each way of lacking a summary row or a column.
ReportPool ==
    {MkReport(rv, "full", s) : rv \in {"plain", "extra"}, s \in 1..MaxSeed}
    \cup {MkReport(rv, "full", 1) : rv \in {"nomacro", "noweighted"}}
    \cup {MkReport("plain", cv, 1) : cv \in {"norecall", "nosupport"}}

---------------------------------------------------------------------------
\* pandas operations used by average_reports

HasRow(f, label) == label \in Range(f.index)

\* The row of f at label, all NaN when f has no such row (outer join).
LabelRow(f, label) ==
    IF HasRow(f, label)
    THEN f.data[CHOOSE i \in 1..Len(f.index) : f.index[i] = label]
    ELSE [j \in 1..Len(f.columns) |-> NaN]

\* Union of the row labels, in order of first appearance.
RECURSIVE UnionIndex(_)
UnionIndex(fs) ==
    IF fs = <<>> THEN <<>>
    ELSE LET u    == UnionIndex(SubSeq(fs, 1, Len(fs) - 1))
             last == fs[Len(fs)].index
             New(l) == l \notin Range(u)
         IN  u \o SelectSeq(last, New)

\* pd.concat(fs, axis=1) of a non-empty list.
Concat(fs) ==
    LET idx == UnionIndex(fs)
    IN  [index   |-> idx,
         columns |-> Flatten([i \in 1..Len(fs) |-> fs[i].columns]),
         data    |-> [r \in 1..Len(idx) |->
                        Flatten([i \in 1..Len(fs) |-> LabelRow(fs[i], idx[r])])]]

\* Positions of the columns named c.
ColPositions(f, c) == Positions(f.columns, c)

\* Cells of row r in the columns named c that are not NaN, left to right.
Present(f, r, c) ==
    LET InCol(j) == j \in ColPositions(f, c) /\ ~IsNaN(f.data[r][j])
        js == SelectSeq([j \in 1..Len(f.columns) |-> j], InCol)
    IN  [k \in 1..Len(js) |-> f.data[r][js[k]].n]

\* Variant of SumAxis1: support averaged like the other columns.
SumAxis1Mean(f, c) ==
    [r \in 1..Len(f.index) |->
        LET xs == Present(f, r, c)
        IN  IF xs = <<>> THEN Num(0) ELSE [n |-> SeqSum(xs), d |-> Len(xs)]]

\* df[c].sum(1): per row, the sum of the cells that are not NaN.
SumAxis1(f, c) == [r \in 1..Len(f.index) |-> Num(SeqSum(Present(f, r, c)))]

\* df[c].mean(1): per row, the mean of the cells that are not NaN.
MeanAxis1(f, c) ==
    [r \in 1..Len(f.index) |->
        LET xs == Present(f, r, c)
        IN  IF xs = <<>> THEN NaN ELSE [n |-> SeqSum(xs), d |-> Len(xs)]]

\* df[c] = series: every column named c takes the series.
SetColumn(f, c, series) ==
    [f EXCEPT !.data = [r \in 1..Len(f.index) |->
        [j \in 1..Len(f.columns) |->
            IF f.columns[j] = c THEN series[r] ELSE f.data[r][j]]]]


\* Variant of ReduceError: a single column reduced as if it were a frame.
ReduceErrorKeyOnly(f, c) ==
    IF ColPositions(f, c) = {} THEN "KeyError" ELSE "none"

\* What df[c].sum(1) or df[c].mean(1) raises: df[c] is a KeyError when no
\* column is named c, a Series (which has no axis 1) when exactly one is, and
\* a DataFrame otherwise.
ReduceError(f, c) ==
    CASE ColPositions(f, c) = {}              -> "KeyError"
      [] Cardinality(ColPositions(f, c)) = 1  -> "ValueError"
      [] OTHER                                -> "none"

\* pd.DataFrame(df.values[:, :4], index=df.index, columns=df.columns[:4])
FirstFourColumns(f) ==
    LET w == IF Len(f.columns) < 4 THEN Len(f.columns) ELSE 4
    IN  [index   |-> f.index,
         columns |-> SubSeq(f.columns, 1, w),
         data    |-> [r \in 1..Len(f.index) |-> SubSeq(f.data[r], 1, w)]]

\* The rows of f at the positions ps, in that order.
TakeRows(f, ps) ==
    [index   |-> [k \in 1..Len(ps) |-> f.index[ps[k]]],
     columns |-> f.columns,
     data    |-> [k \in 1..Len(ps) |-> f.data[ps[k]]]]

\* df.drop(index=labels), for labels that are all present.
DropRows(f, labels) ==
    LET Kept(r) == f.index[r] \notin labels
    IN  TakeRows(f, SelectSeq([r \in 1..Len(f.index) |-> r], Kept))

\* Variant of DropLabel: the frame is kept as it was.
DropLabelKeep(f, label) == f

\* df.drop(index=[label]) of lines 40 and 42.
DropLabel(f, label) == DropRows(f, {label})

\* df.loc[labels], for labels that are all present.
LocRows(f, labels) ==
    TakeRows(f, [k \in 1..Len(labels) |->
                    CHOOSE r \in 1..Len(f.index) : f.index[r] = labels[k]])

\* What df.loc[labels] raises.
LocError(f, labels) ==
    IF \E k \in 1..Len(labels) : ~HasRow(f, labels[k]) THEN "KeyError" ELSE "none"

\* Variant of DropError: drop called with errors='ignore'.
DropErrorIgnore(f, labels) == "none"

\* What df.drop(index=labels) raises.
DropError(f, labels) ==
    IF \E l \in labels : ~HasRow(f, l) THEN "KeyError" ELSE "none"

\* What sort_values('support') raises.
SortError(f) ==
    CASE ColPositions(f, "support") = {}              -> "KeyError"
      [] Cardinality(ColPositions(f, "support")) > 1  -> "ValueError"
      [] OTHER                                        -> "none"

\* a >= b on cells that are not NaN.
CellGeq(a, b) == a.n * b.d >= b.n * a.d

\* Variant of SortedOrders: the rows are left as they are.
SortedOrdersUnsorted(f) == {[i \in 1..Len(f.index) |-> i]}

\* Variant of SortedOrders: ascending=False left out.
SortedOrdersAscending(f) ==
    LET n  == Len(f.index)
        sj == CHOOSE j \in ColPositions(f, "support") : TRUE
    IN  {p \in Orderings(n) :
            \A i \in 1..(n - 1) : CellGeq(f.data[p[i + 1]][sj], f.data[p[i]][sj])}

\* The row orders sort_values('support', ascending=False) may return.  The
\* call leaves kind at its default, 'quicksort', which pandas documents as
\* not stable: the order of rows with equal support is whatever the sorting
\* routine of the numpy build yields.
SortedOrders(f) ==
    LET n  == Len(f.index)
        sj == CHOOSE j \in ColPositions(f, "support") : TRUE
    IN  {p \in Orderings(n) :
            \A i \in 1..(n - 1) : CellGeq(f.data[p[i]][sj], f.data[p[i + 1]][sj])}

\* pd.concat([a, b]) of two frames with the same columns.
ConcatRows(a, b) ==
    [index   |-> a.index \o b.index,
     columns |-> a.columns,
     data    |-> a.data \o b.data]

\* Variant of Round2: the digits after the second decimal are cut off.
Round2Truncate(c) ==
    IF IsNaN(c) THEN NaN ELSE Num(10 * (c.n \div (10 * c.d)))

\* round(2) of a cell in thousandths: the nearest multiple of ten, a tie
\* going to the even hundredth.
Round2(c) ==
    IF IsNaN(c) THEN NaN
    ELSE LET b   == 10 * c.d
             fl  == c.n \div b
             rem == c.n % b
             up  == 2 * rem > b \/ (2 * rem = b /\ fl % 2 = 1)
         IN  Num(10 * (IF up THEN fl + 1 ELSE fl))

\* The names columns[:3] selects.
FirstThreeNames(f) ==
    Range(SubSeq(f.columns, 1, IF Len(f.columns) < 3 THEN Len(f.columns) ELSE 3))

\* What report_final[columns[:3]] = ... raises: a name that several columns
\* carry selects all of them, and the frame on the right is then wider than
\* the key ("Columns must be same length as key").
RoundError(f) ==
    IF \E c \in FirstThreeNames(f) : Cardinality(ColPositions(f, c)) > 1
    THEN "ValueError" ELSE "none"

\* report_final[columns[:3]] = report_final[columns[:3]].round(2)
RoundFirstThree(f) ==
    [f EXCEPT !.data = [r \in 1..Len(f.index) |->
        [j \in 1..Len(f.columns) |->
            IF f.columns[j] \in FirstThreeNames(f) THEN Round2(f.data[r][j])
            ELSE f.data[r][j]]]]

\* astype(int) of a cell: truncation.
AsInt(c) == Num(c.n \div c.d)

\* report_final[['support']] = report_final[['support']].astype(int)
SupportAsInt(f) ==
    [f EXCEPT !.data = [r \in 1..Len(f.index) |->
        [j \in 1..Len(f.columns) |->
            IF f.columns[j] = "support" THEN AsInt(f.data[r][j])
            ELSE f.data[r][j]]]]

\* report_final.T.to_dict(): label -> column -> value, keys in row order.
ToDict(f) ==
    [kind |-> "dict",
     keys |-> f.index,
     rows |-> [l \in Range(f.index) |->
                [c \in Range(f.columns) |->
                    LET r == CHOOSE i \in 1..Len(f.index) :
                                 f.index[i] = l /\ \A k \in Positions(f.index, l) : k <= i
                        j == CHOOSE i \in 1..Len(f.columns) :
                                 f.columns[i] = c /\ \A k \in ColPositions(f, c) : k <= i
                    IN  f.data[r][j]]]]

\* report_final.to_string(): a header line, then one line per row, top to
\* bottom.  The padding and the digits of a cell are not modelled; a line is
\* its label and the values it prints.
ToText(f) ==
    [kind   |-> "str",
     header |-> f.columns,
     lines  |-> [r \in 1..Len(f.index) |-> [label |-> f.index[r], cells |-> f.data[r]]]]

---------------------------------------------------------------------------
\* Objects

\* The id a newly created object gets.
FreshId(h) == CHOOSE i \in 1..(Cardinality(DOMAIN h) + 1) :
                  i \notin DOMAIN h /\ \A j \in 1..(i - 1) : j \in DOMAIN h

\* The object is dropped when the last name bound to it goes away.
Release(h, id, roots) ==
    IF id \notin DOMAIN h \/ id \in roots THEN h
    ELSE [i \in DOMAIN h \ {id} |-> h[i]]

\* Variant of ConcatTarget: the first report itself is used as df.
ConcatTargetFirst(h, rs) == rs[1]

\* pd.concat builds its result in a new object.
ConcatTarget(h, rs) == FreshId(h)

\* Variant of ConcatError: an empty list yields an empty frame.
ConcatErrorNever(h, rs) == "none"

\* What pd.concat(reports, axis=1) raises.
ConcatError(h, rs) == IF rs = <<>> THEN "ValueError" ELSE "none"

NoError == [type |-> "none", line |-> 0]

\* An exception leaves the function: the locals go, nothing is returned.
Raise(type, line) ==
    /\ pc' = "done"
    /\ err' = [type |-> type, line |-> line]
    /\ heap' = Release(Release(heap, df, Range(reports)), report_final, Range(reports))
    /\ df' = 0
    /\ report_final' = 0
    /\ UNCHANGED <<reports, output_dict, result>>

---------------------------------------------------------------------------
\* average_reports, line by line

Init ==
    \E k \in 0..MaxReports :
      \E rs \in [1..k -> ReportPool] :
        /\ heap = [i \in 1..k |-> rs[i]]
        /\ reports = [i \in 1..k |-> i]
        /\ output_dict \in BOOLEAN
        /\ pc = "L32"
        /\ df = 0
        /\ report_final = 0
        /\ result = 0
        /\ err = NoError

\* Line 32: df = pd.concat(reports, axis=1)
ConcatReports ==
    /\ pc = "L32"
    /\ IF ConcatError(heap, reports) # "none"
       THEN Raise(ConcatError(heap, reports), 32)
       ELSE LET id == ConcatTarget(heap, reports)
            IN  /\ heap' = (id :> Concat([i \in 1..Len(reports) |-> heap[reports[i]]])) @@ heap
                /\ df' = id
                /\ pc' = "L33"
                /\ UNCHANGED <<reports, output_dict, report_final, result, err>>

\* df[col] = series, or the exception that computing the series raises.
AssignReduced(line, col, series, next) ==
    IF ReduceError(heap[df], col) # "none"
    THEN Raise(ReduceError(heap[df], col), line)
    ELSE /\ heap' = [heap EXCEPT ![df] = SetColumn(@, col, series)]
         /\ pc' = next
         /\ UNCHANGED <<reports, output_dict, df, report_final, result, err>>

\* Line 33: df['support'] = df['support'].sum(1)
SumSupport ==
    /\ pc = "L33"
    /\ AssignReduced(33, "support", SumAxis1(heap[df], "support"), "L34")

\* Line 34: df['precision'] = df['precision'].mean(1)
MeanPrecision ==
    /\ pc = "L34"
    /\ AssignReduced(34, "precision", MeanAxis1(heap[df], "precision"), "L35")

\* Line 35: df['recall'] = df['recall'].mean(1)
MeanRecall ==
    /\ pc = "L35"
    /\ AssignReduced(35, "recall", MeanAxis1(heap[df], "recall"), "L36")

\* Line 36: df['f1-score'] = df['f1-score'].mean(1)
MeanF1 ==
    /\ pc = "L36"
    /\ AssignReduced(36, "f1-score", MeanAxis1(heap[df], "f1-score"), "L38")

\* df = value: a new object takes the name, the old one loses it.
RebindDf(value, next) ==
    LET id == FreshId(heap)
    IN  /\ heap' = Release((id :> value) @@ heap, df, Range(reports))
        /\ df' = id
        /\ pc' = next
        /\ UNCHANGED <<reports, output_dict, report_final, result, err>>

\* Line 38: df = pd.DataFrame(df.values[:, :4], ...)
FirstFour ==
    /\ pc = "L38"
    /\ RebindDf(FirstFourColumns(heap[df]), "L39")

\* Lines 39-40: drop 'micro avg' if present
DropMicro ==
    /\ pc = "L39"
    /\ IF HasRow(heap[df], "micro avg")
       THEN RebindDf(DropLabel(heap[df], "micro avg"), "L41")
       ELSE /\ pc' = "L41"
            /\ UNCHANGED <<heap, reports, output_dict, df, report_final, result, err>>

\* Lines 41-42: drop 'accuracy' if present
DropAccuracy ==
    /\ pc = "L41"
    /\ IF HasRow(heap[df], "accuracy")
       THEN RebindDf(DropLabel(heap[df], "accuracy"), "L43")
       ELSE /\ pc' = "L43"
            /\ UNCHANGED <<heap, reports, output_dict, df, report_final, result, err>>

SummaryRows == <<"macro avg", "weighted avg">>

\* Lines 43-44: report_final = df.drop(index=[...]).sort_values('support', ...)
SortClasses ==
    /\ pc = "L43"
    /\ IF DropError(heap[df], Range(SummaryRows)) # "none"
       THEN Raise(DropError(heap[df], Range(SummaryRows)), 43)
       ELSE LET classes == DropRows(heap[df], Range(SummaryRows))
            IN  IF SortError(classes) # "none"
                THEN Raise(SortError(classes), 44)
                ELSE \E p \in SortedOrders(classes) :
                        LET id == FreshId(heap)
                        IN  /\ heap' = (id :> TakeRows(classes, p)) @@ heap
                            /\ report_final' = id
                            /\ pc' = "L45"
                            /\ UNCHANGED <<reports, output_dict, df, result, err>>

\* Lines 45-46: report_final = pd.concat([report_final, df.loc[[...]]])
AppendSummary ==
    /\ pc = "L45"
    /\ IF LocError(heap[df], SummaryRows) # "none"
       THEN Raise(LocError(heap[df], SummaryRows), 46)
       ELSE LET id == FreshId(heap)
                v  == ConcatRows(heap[report_final], LocRows(heap[df], SummaryRows))
            IN  /\ heap' = Release((id :> v) @@ heap, report_final, Range(reports))
                /\ report_final' = id
                /\ pc' = "L47"
                /\ UNCHANGED <<reports, output_dict, df, result, err>>

\* Lines 47-48: round the first three columns to 2 decimals
RoundMetrics ==
    /\ pc = "L47"
    /\ IF RoundError(heap[report_final]) # "none"
       THEN Raise(RoundError(heap[report_final]), 47)
       ELSE /\ heap' = [heap EXCEPT ![report_final] = RoundFirstThree(@)]
            /\ pc' = "L49"
            /\ UNCHANGED <<reports, output_dict, df, report_final, result, err>>

\* Line 49: support as int
CastSupport ==
    /\ pc = "L49"
    /\ heap' = [heap EXCEPT ![report_final] = SupportAsInt(@)]
    /\ pc' = "L51"
    /\ UNCHANGED <<reports, output_dict, df, report_final, result, err>>

\* Lines 51-56: build the dict or the string and return it
Output ==
    /\ pc = "L51"
    /\ LET id == FreshId(heap)
           v  == IF output_dict THEN ToDict(heap[report_final])
                 ELSE ToText(heap[report_final])
       IN  /\ heap' = Release(Release((id :> v) @@ heap, df, Range(reports)),
                              report_final, Range(reports))
           /\ result' = id
    /\ df' = 0
    /\ report_final' = 0
    /\ pc' = "done"
    /\ UNCHANGED <<reports, output_dict, err>>

Next ==
    \/ ConcatReports
    \/ SumSupport
    \/ MeanPrecision
    \/ MeanRecall
    \/ MeanF1
    \/ FirstFour
    \/ DropMicro
    \/ DropAccuracy
    \/ SortClasses
    \/ AppendSummary
    \/ RoundMetrics
    \/ CastSupport
    \/ Output

Spec == Init /\ [][Next]_vars

---------------------------------------------------------------------------
\* Vocabulary of the properties

Done == pc = "done"

Succeeded == pc = "done" /\ result # 0

Failed == pc = "done" /\ result = 0 /\ err.type # "none"

NumReports == Len(reports)

\* The i-th report as the caller holds it.
Input(i) == heap[reports[i]]

HasColumn(f, c) == c \in Range(f.columns)

\* The numbers the input reports hold at (label, column), in list order.
InputValues(label, col) ==
    LET Holds(i) == HasRow(Input(i), label) /\ HasColumn(Input(i), col)
        is == SelectSeq([i \in 1..NumReports |-> i], Holds)
    IN  [k \in 1..Len(is) |->
            LET g == Input(is[k])
                r == CHOOSE x \in 1..Len(g.index) : g.index[x] = label
                j == CHOOSE x \in 1..Len(g.columns) : g.columns[x] = col
            IN  g.data[r][j].n]

InputSupport(label) == SeqSum(InputValues(label, "support"))

InEveryReport(label) == \A i \in 1..NumReports : HasRow(Input(i), label)

SameRowLabels == \A i, j \in 1..NumReports : Range(Input(i).index) = Range(Input(j).index)

\* The row labels of the returned value, first to last.
OutLabels ==
    IF heap[result].kind = "dict" THEN heap[result].keys
    ELSE [r \in 1..Len(heap[result].lines) |-> heap[result].lines[r].label]

\* The column names of the returned value.
OutColumns ==
    IF heap[result].kind = "dict"
    THEN UNION {DOMAIN heap[result].rows[l] : l \in DOMAIN heap[result].rows}
    ELSE Range(heap[result].header)

\* The returned value at (label, column).
OutCell(label, col) ==
    IF heap[result].kind = "dict" THEN heap[result].rows[label][col]
    ELSE LET o == heap[result]
             r == CHOOSE x \in 1..Len(o.lines) : o.lines[x].label = label
             j == CHOOSE x \in 1..Len(o.header) : o.header[x] = col
         IN  o.lines[r].cells[j]

\* The class rows of the returned value, first to last.
OutClasses ==
    LET IsClass(l) == l \notin Range(SummaryRows)
    IN  SelectSeq(OutLabels, IsClass)

Metrics == {"precision", "recall", "f1-score"}

Abs(x) == IF x < 0 THEN -x ELSE x

\* c is the mean of xs rounded to 2 decimals: a whole number of hundredths
\* no further than half a hundredth from the mean.
IsRoundedMean(c, xs) ==
    IF xs = <<>> THEN IsNaN(c)
    ELSE /\ c.d = 1
         /\ c.n % 10 = 0
         /\ 2 * Abs(c.n * Len(xs) - SeqSum(xs)) <= 10 * Len(xs)

---------------------------------------------------------------------------
\* C1: with output_dict=True and reports that share their row labels, the
\* support of every output row present in every report is the exact integer
\* sum of that row's support over the input reports.
SupportSummation ==
    (Succeeded /\ output_dict /\ SameRowLabels) =>
        \A l \in Range(OutLabels) :
            InEveryReport(l) => OutCell(l, "support") = Num(InputSupport(l))

\* Two folds with different supports for class A have been summed.
SupportSummationWitness ==
    /\ Succeeded /\ output_dict /\ SameRowLabels
    /\ NumReports = 2
    /\ InputValues("A", "support") = <<1, 3>>
    /\ OutCell("A", "support") = Num(4)

\* C2: every precision, recall and f1-score of the output is the mean of
\* that row's values of the same column over the input reports, rounded to
\* 2 decimals; no other column enters it.
MetricAveraging ==
    Succeeded =>
        \A l \in Range(OutLabels) : \A c \in Metrics :
            IsRoundedMean(OutCell(l, c), InputValues(l, c))

\* A mean that is not a whole number of hundredths has been rounded up.
MetricAveragingWitness ==
    /\ Succeeded
    /\ InputValues("A", "precision") = <<800, 815>>
    /\ OutCell("A", "precision") = Num(810)
    /\ OutCell("A", "recall") = Num(710)

\* C3: in every result the class rows are in non-increasing order of summed
\* support, and 'macro avg' then 'weighted avg' are the last two rows, each
\* occurring once.
RowOrdering ==
    Succeeded =>
        LET ls == OutLabels
            n  == Len(ls)
        IN  /\ n >= 2
            /\ ls[n - 1] = "macro avg"
            /\ ls[n] = "weighted avg"
            /\ \A i \in 1..(n - 2) : ls[i] \notin Range(SummaryRows)
            /\ \A i \in 1..(n - 3) : InputSupport(ls[i]) >= InputSupport(ls[i + 1])

\* The sort has moved class A, first in every input, behind the others.
RowOrderingWitness ==
    /\ Succeeded
    /\ Len(OutLabels) = 5
    /\ OutLabels[3] = "A"
    /\ InputSupport("A") < InputSupport("B")

\* The report g without its 'micro avg' and 'accuracy' rows.
Stripped(g) ==
    LET Kept(r) == g.index[r] \notin {"micro avg", "accuracy"}
        rs == SelectSeq([r \in 1..Len(g.index) |-> r], Kept)
    IN  [index   |-> [k \in 1..Len(rs) |-> g.index[rs[k]]],
         columns |-> g.columns,
         data    |-> [k \in 1..Len(rs) |-> g.data[rs[k]]]]

\* The values lines 32-49 compute from the frames fs, rows in aligned order.
Aggregated(fs) ==
    LET f0 == Concat(fs)
        f1 == SetColumn(f0, "support", SumAxis1(f0, "support"))
        f2 == SetColumn(f1, "precision", MeanAxis1(f1, "precision"))
        f3 == SetColumn(f2, "recall", MeanAxis1(f2, "recall"))
        f4 == SetColumn(f3, "f1-score", MeanAxis1(f3, "f1-score"))
    IN  SupportAsInt(RoundFirstThree(FirstFourColumns(f4)))

\* The cell of frame f at (label, column).
CellAt(f, label, col) ==
    f.data[CHOOSE r \in 1..Len(f.index) : f.index[r] = label]
          [CHOOSE j \in 1..Len(f.columns) : f.columns[j] = col]

\* C4: 'micro avg' and 'accuracy' are never rows of the output, and every
\* value of the output is the one the same reports give once those two rows
\* are taken out of them.
RowFiltering ==
    Succeeded =>
        /\ "micro avg" \notin Range(OutLabels)
        /\ "accuracy" \notin Range(OutLabels)
        /\ LET ref == Aggregated([i \in 1..NumReports |-> Stripped(Input(i))])
           IN  \A l \in Range(OutLabels) : \A c \in OutColumns :
                   /\ HasRow(ref, l)
                   /\ HasColumn(ref, c)
                   /\ OutCell(l, c) = CellAt(ref, l, c)

\* Some reports carry the two rows and some do not.
RowFilteringWitness ==
    /\ Succeeded
    /\ \E i \in 1..NumReports :
          HasRow(Input(i), "micro avg") /\ HasRow(Input(i), "accuracy")
    /\ \E i \in 1..NumReports :
          ~HasRow(Input(i), "micro avg") /\ ~HasRow(Input(i), "accuracy")

\* A report as the docstring asks for it: the four columns and both of the
\* summary rows that are kept.
WellFormed(g) ==
    /\ g.columns = Columns
    /\ \A k \in 1..Len(SummaryRows) : HasRow(g, SummaryRows[k])

\* C5: a list of one report, with output_dict=True, is averaged to that
\* report's own values: metrics rounded to 2 decimals, support unchanged,
\* 'micro avg' and 'accuracy' gone.
SingleReport ==
    (Done /\ NumReports = 1 /\ output_dict /\ WellFormed(Input(1))) =>
        /\ Succeeded
        /\ \A l \in Range(OutLabels) :
              /\ OutCell(l, "support") = Num(InputSupport(l))
              /\ \A c \in Metrics : IsRoundedMean(OutCell(l, c), InputValues(l, c))
        /\ Range(OutLabels) = Range(Input(1).index) \ {"micro avg", "accuracy"}

\* The position of x in the sequence s.
IndexOf(s, x) == CHOOSE i \in 1..Len(s) : s[i] = x

\* The row order of the aligned input.
AlignedLabels == UnionIndex([i \in 1..NumReports |-> Input(i)])

\* C6 as stated: class rows with equal summed support keep the relative
\* order they have in the aligned input.
StableSort ==
    (Succeeded /\ SameRowLabels /\ \A k \in 1..NumReports : WellFormed(Input(k))) =>
        \A i, j \in 1..Len(OutClasses) :
            (i < j /\ InputSupport(OutClasses[i]) = InputSupport(OutClasses[j]))
                => IndexOf(AlignedLabels, OutClasses[i]) < IndexOf(AlignedLabels, OutClasses[j])

\* C6 as the code has it: the class rows of the aligned input each occur once
\* in the output, a row with larger summed support before any row with
\* smaller; nothing is promised about rows with equal support.
SortedUpToTies ==
    Succeeded =>
        /\ \A l \in Range(AlignedLabels) \ (Range(SummaryRows) \cup {"micro avg", "accuracy"}) :
              Cardinality(Positions(OutClasses, l)) = 1
        /\ \A i, j \in 1..Len(OutClasses) :
              InputSupport(OutClasses[i]) > InputSupport(OutClasses[j]) => i < j

\* Classes B and C have equal support and come out in the other order, with
\* class A, of larger support, ahead of both.
SortedUpToTiesWitness ==
    /\ Succeeded
    /\ InputSupport("B") = InputSupport("C")
    /\ InputSupport("A") > InputSupport("B")
    /\ OutClasses = <<"A", "C", "B">>

\* C7 as stated: a summary row missing from any one report makes the call
\* fail.
MissingInAnyFails ==
    (Done /\ \E i \in 1..NumReports : \E k \in 1..Len(SummaryRows) :
                ~HasRow(Input(i), SummaryRows[k]))
        => Failed

\* The columns every report of the list has allow lines 33-38 to pass.
ColumnsReduce ==
    /\ \A c \in Range(Columns) :
          Cardinality({i \in 1..NumReports : HasColumn(Input(i), c)}) >= 2
    /\ Input(1).columns = Columns

\* C7 as the code has it: a summary row missing from every report makes the
\* call fail without a result; the drop on line 43 raises the KeyError when
\* the columns let the call get that far.
MissingInAllFails ==
    (Done /\ NumReports >= 1
          /\ \E k \in 1..Len(SummaryRows) :
                \A i \in 1..NumReports : ~HasRow(Input(i), SummaryRows[k]))
        => /\ Failed
           /\ ColumnsReduce => err = [type |-> "KeyError", line |-> 43]

\* Two reports, neither with 'macro avg': line 43 has raised.
MissingInAllFailsWitness ==
    /\ Done
    /\ NumReports = 2
    /\ \A i \in 1..NumReports : ~HasRow(Input(i), "macro avg")
    /\ err = [type |-> "KeyError", line |-> 43]
    /\ result = 0

\* C8 as stated: a report lacking one of the four columns makes the call
\* fail, whatever the other reports hold.
LackingColumnFails ==
    (Done /\ \E i \in 1..NumReports : \E c \in Range(Columns) : ~HasColumn(Input(i), c))
        => Failed

\* C8 as the code has it: the call fails, on one of lines 33-36 and without a
\* result, when a report lacks a column that at most one report of the list
\* has.
LackingColumnFailsUnlessTwoHaveIt ==
    (Done /\ \E c \in Range(Columns) :
                /\ \E i \in 1..NumReports : ~HasColumn(Input(i), c)
                /\ Cardinality({i \in 1..NumReports : HasColumn(Input(i), c)}) <= 1)
        => /\ Failed
           /\ err.type \in {"KeyError", "ValueError"}
           /\ err.line \in 33..36

\* Two reports, one without 'recall': line 35 has raised.
LackingColumnWitness ==
    /\ Done
    /\ NumReports = 2
    /\ HasColumn(Input(1), "recall")
    /\ ~HasColumn(Input(2), "recall")
    /\ err = [type |-> "ValueError", line |-> 35]
    /\ result = 0

\* C9: an empty list is refused by line 32, before any aggregation line is
\* reached, and nothing is returned.
EmptyInputFails ==
    reports = <<>> =>
        \/ pc = "L32"
        \/ /\ pc = "done"
           /\ err = [type |-> "ValueError", line |-> 32]
           /\ result = 0
           /\ df = 0

\* The call on an empty list has ended.
EmptyInputWitness ==
    /\ reports = <<>>
    /\ Failed

\* C10: no step changes the caller's list or any report in it, and the
\* returned object is none of the reports.
InputsUntouched ==
    [][/\ reports' = reports
       /\ \A i \in 1..Len(reports) :
             /\ reports[i] \in DOMAIN heap'
             /\ heap'[reports[i]] = heap[reports[i]]
       /\ result' # 0 => result' \notin Range(reports)]_vars

\* A call on two reports has returned a new object.
InputsUntouchedWitness ==
    /\ Succeeded
    /\ NumReports >= 2
    /\ result \notin Range(reports)
    /\ \A i \in 1..NumReports : Input(i) \in ReportPool

===========================================================================
